---------------------------- MODULE Spec2Model ----------------------------
(***************************************************************************)
(* The bounded-execution supervisor of mle-RL: main() dispatches an agent  *)
(* runner (run_mle_agent, run_openai_agent, run_aide_agent,                *)
(* run_dummy_agent) under timeout_handler (a worker thread joined with a   *)
(* timeout) or run_openai_with_timeout (asyncio.wait_for), and on expiry   *)
(* reclaims the descendant processes of the supervising process.           *)
(*                                                                         *)
(* Time is a discrete clock `now`.  The OS process table holds the         *)
(* processes spawned below the supervising process; a process is "run",    *)
(* "zombie" (exited, not yet waited for by the supervising process) or     *)
(* "none" (no such process).  SIGKILL takes effect at once; SIGTERM is     *)
(* honoured or not at the process's discretion (a process may exit at any  *)
(* time, or never).  Pids are never reused.                                *)
(***************************************************************************)
EXTENDS Integers, Sequences, FiniteSets, TLC

\* ------------------------------------------------------------------ bounds
MaxProcs == 2
MaxSteps == 2
MaxTimeout == 1
MaxTime == 4
\* the largest time budget of a runner that is called on its own
MaxBudget == 2

\* ------------------------------------------------------- program constants
\* psutil.wait_procs(..., timeout=3) and parent.wait(3)
GraceWindow == 3
\* os.getpid(): the supervising process
current_pid == 0

Pids == 1..MaxProcs
\* the parent of a process that was orphaned: init, outside the supervisor's tree
InitPid == MaxProcs + 1
AgentTypes == {"mle", "openai", "aide", "dummy"}
\* the three history files: trajectory, fix_parse_error, cost_history
Files == {1, 2, 3}
\* what func can raise: an Exception, the builtin TimeoutError (an Exception),
\* or a BaseException that is no Exception (SystemExit)
ExcKinds == {"Exception", "TimeoutError", "SystemExit"}
ActionTags == {"execute_code", "Error", "End"}

VARIABLES
    \* configuration (main)
    agent_type, max_steps, execution_timeout, has,
    \* wall clock
    now,
    \* the calling context: timeout_handler / run_openai_with_timeout
    pc, wakeAt, child_processes, idx, still_alive, outcome, outExc, timedOut,
    \* timeout_handler's result[0], exception[0], completed[0]
    result, exception, completed,
    \* terminate_process_and_children's frame
    rpc, rpid, rchildren, ridx, rstill, rraised,
    \* the worker context: target() running the runner
    wpc, wexc, i, start_time, time_left, action, hist, file, reported, nstart,
    \* history variables of the run: env.step calls started, open(..., 'w') and
    \* save_run calls made
    nstep, nwrite,
    \* the OS process table
    status, parent, nextPid, termSent, killSent,
    \* history variables of the reclamation
    snapPid, snapGrandchild, lateSpawn

cfgVars == <<agent_type, max_steps, execution_timeout, has>>
callerVars == <<pc, wakeAt, child_processes, idx, still_alive, outcome, outExc, timedOut>>
handoffVars == <<result, exception, completed>>
reaperVars == <<rpc, rpid, rchildren, ridx, rstill, rraised>>
workerVars == <<wpc, wexc, i, start_time, time_left, action, hist, file, reported, nstart,
               nstep, nwrite>>
procVars == <<status, parent, nextPid, lateSpawn>>
sigVars == <<termSent, killSent>>
histVars == <<snapPid, snapGrandchild>>
vars == <<cfgVars, now, callerVars, handoffVars, reaperVars, workerVars, procVars,
          sigVars, histVars>>

\* ------------------------------------------------------------- helpers
Max(a, b) == IF a >= b THEN a ELSE b

RECURSIVE SetToSeq(_)
\* a set of pids as a list in pid order
SetToSeq(S) ==
    IF S = {} THEN <<>>
    ELSE LET m == CHOOSE x \in S : \A y \in S : x <= y
         IN <<m>> \o SetToSeq(S \ {m})

Range(s) == {s[k] : k \in 1..Len(s)}

\* ------------------------------------------------------ the process table
Exists(p) == p = current_pid \/ (p \in Pids /\ status[p] # "none")
Running(p) == p = current_pid \/ (p \in Pids /\ status[p] = "run")

RECURSIVE DescendantsUpTo(_, _)
\* the processes in the table whose parent chain reaches pid within n links
DescendantsUpTo(pid, n) ==
    IF n = 0 THEN {}
    ELSE LET below == DescendantsUpTo(pid, n - 1)
         IN {p \in Pids : status[p] # "none" /\ (parent[p] = pid \/ parent[p] \in below)}

\* psutil: Process(pid).children(recursive=True)
Descendants(pid) == DescendantsUpTo(pid, MaxProcs)

\* The table after process p exits: a child of the supervising process stays a
\* zombie until the supervising process waits for it; any other parent (init
\* for an orphan) is taken to wait for its children at once.  p's children are
\* re-parented to init.
StatusAfterExit(p) ==
    [q \in Pids |->
        IF q = p THEN (IF parent[p] = current_pid THEN "zombie" ELSE "none")
        ELSE status[q]]

ParentAfterExit(p) ==
    [q \in Pids |-> IF parent[q] = p /\ q # p THEN InitPid ELSE parent[q]]

\* waitpid: the table once the zombies in S have been reaped
StatusAfterReap(S) ==
    [q \in Pids |-> IF q \in S /\ status[q] = "zombie" THEN "none" ELSE status[q]]

\* psutil's Process.wait as seen from the supervising process: a child of ours
\* that is a zombie is reaped by waitpid and counts as gone; any other process
\* counts as gone only when its pid no longer exists.
GoneForWait(p) ==
    \/ ~Exists(p)
    \/ (p \in Pids /\ status[p] = "zombie" /\ parent[p] = current_pid)


\* a discovery that stops at the first descendant it finds
get_all_child_processes_first(parent_pid) ==
    LET found == IF Exists(parent_pid) THEN SetToSeq(Descendants(parent_pid)) ELSE <<>>
    IN IF Len(found) > 1 THEN <<found[1]>> ELSE found

\* psutil.Process(parent_pid).children(recursive=True), [] on NoSuchProcess
get_all_child_processes(parent_pid) ==
    IF Exists(parent_pid) THEN SetToSeq(Descendants(parent_pid)) ELSE <<>>

\* a wait_procs that reports every member as a survivor
wait_procs_alive_all(procs) == procs

\* a wait_procs that reports no survivor
wait_procs_alive_none(procs) == <<>>

\* psutil.wait_procs(procs, timeout=3): the members still alive when it returns
wait_procs_alive(procs) == SelectSeq(procs, LAMBDA p : ~GoneForWait(p))

\* wait_procs returns once every member is gone or the grace window is over
wait_procs_ready(procs) ==
    (\A p \in Range(procs) : GoneForWait(p)) \/ now >= wakeAt

\* the process table is replaced by st/par; a pid that no longer exists keeps
\* no parent
SetTable(st, par) ==
    /\ status' = st
    /\ parent' = [q \in Pids |-> IF st[q] = "none" THEN InitPid ELSE par[q]]
    /\ UNCHANGED <<nextPid, lateSpawn>>

\* proc.terminate(): SIGTERM; NoSuchProcess (ignored by the callers' handlers)
\* when the pid is gone.  The signal is recorded; whether the process exits is
\* the process's own step (proc_exit).
proc_terminate(p) ==
    /\ termSent' = IF Exists(p) THEN termSent \cup {p} ELSE termSent
    /\ UNCHANGED <<killSent, procVars>>

\* proc.kill(): SIGKILL; a running process exits at once, a zombie is unaffected
proc_kill(p) ==
    /\ killSent' = IF Exists(p) THEN killSent \cup {p} ELSE killSent
    /\ UNCHANGED termSent
    /\ IF p \in Pids /\ status[p] = "run"
       THEN SetTable(StatusAfterExit(p), ParentAfterExit(p))
       ELSE UNCHANGED procVars

\* ------------------------------------------------------------ environment
\* the calling context is inside terminate_process_and_children: called from
\* timeout_handler's second pass, or called on its own
InReaper == pc \in {"in_reaper", "direct_reaper"}

\* Some context is reading the clock: the calling context sits in a timed wait
\* that has not expired, or the runner's time budget is not yet used up.  Every
\* comparison of the program is of the form now >= t, so a later clock value
\* changes nothing once all of them hold.
ClockIsRead ==
    \/ /\ pc \in {"thread_join", "wait_for", "wait_procs", "o_wait_procs"}
       /\ now < wakeAt
    \/ /\ InReaper
       /\ rpc \in {"r_wait_procs", "r_parent_wait"}
       /\ now < wakeAt
    \/ /\ wpc \notin {"idle", "begin", "ret", "exc", "dead", "cancelled"}
       /\ now - start_time < execution_timeout

\* The calling context cannot take a step until time passes or another context
\* moves: it sits in thread.join, wait_for, wait_procs or parent.wait and what
\* it waits for has not happened, or its call is over.  Everything else the
\* calling context does (a few statements between two waits) takes no time on
\* this clock.
CallerBlocked ==
    \/ /\ pc = "thread_join"
       /\ wpc \notin {"idle", "dead"}
       /\ now < wakeAt
    \/ /\ pc = "wait_for"
       /\ wpc \notin {"ret", "exc"}
       /\ ~(wpc = "act" /\ now >= wakeAt)
    \/ /\ pc \in {"wait_procs", "o_wait_procs"}
       /\ ~wait_procs_ready(child_processes)
    \/ /\ InReaper
       /\ rpc = "r_wait_procs"
       /\ ~wait_procs_ready(rchildren)
    \/ /\ InReaper
       /\ rpc = "r_parent_wait"
       /\ ~(GoneForWait(rpid) \/ now >= wakeAt)
    \/ pc \in {"done", "direct"}

Tick ==
    /\ now < MaxTime
    /\ ClockIsRead
    /\ CallerBlocked
    /\ now' = now + 1
    /\ UNCHANGED <<cfgVars, callerVars, handoffVars, reaperVars, workerVars, procVars,
                   sigVars, histVars>>

\* the supervising process is over: the call has ended and no runner is left
ProgramOver == pc = "done" /\ wpc \in {"dead", "cancelled"}

\* a new process: pids are handed out in order and never reused; lateSpawn
\* records <<process, spawner>> when a member of the current snapshot spawns
Spawn(par) ==
    /\ nextPid <= MaxProcs
    /\ status' = [status EXCEPT ![nextPid] = "run"]
    /\ parent' = [parent EXCEPT ![nextPid] = par]
    /\ nextPid' = nextPid + 1
    /\ lateSpawn' = IF par \in Range(child_processes)
                    THEN lateSpawn \cup {<<nextPid, par>>}
                    ELSE lateSpawn

\* env.step runs external work in a child process of the supervising process
env_spawn ==
    /\ wpc \in {"step", "acb"}
    /\ Spawn(current_pid)
    /\ UNCHANGED <<cfgVars, now, callerVars, handoffVars, reaperVars, workerVars,
                   sigVars, histVars>>

\* a running process spawns a child of its own (the processes are followed
\* while the supervising process runs)
proc_fork ==
    /\ ~ProgramOver
    /\ \E q \in Pids :
          /\ status[q] = "run"
          /\ Spawn(q)
    /\ UNCHANGED <<cfgVars, now, callerVars, handoffVars, reaperVars, workerVars,
                   sigVars, histVars>>

\* a process exits by itself (its work is over, or it honours a SIGTERM); a
\* process that ignores SIGTERM is one that never takes this step
proc_exit ==
    /\ ~ProgramOver
    /\ \E p \in Pids :
          /\ status[p] = "run"
          /\ SetTable(StatusAfterExit(p), ParentAfterExit(p))
    /\ UNCHANGED <<cfgVars, now, callerVars, handoffVars, reaperVars, workerVars,
                   sigVars, histVars>>

\* env.step waits for a child process it ran (a zombie child of the supervising
\* process is reaped)
proc_reap ==
    /\ wpc \in {"step", "acb"}
    /\ \E p \in Pids :
          /\ status[p] = "zombie"
          /\ parent[p] = current_pid
          /\ SetTable(StatusAfterReap({p}), parent)
    /\ UNCHANGED <<cfgVars, now, callerVars, handoffVars, reaperVars, workerVars,
                   sigVars, histVars>>

\* ------------------------------------------------- terminate_process_and_children
\* try: parent = psutil.Process(pid); children = parent.children(recursive=True)
r_process ==
    /\ rpc = "r_process"
    /\ IF Exists(rpid)
       THEN /\ rchildren' = SetToSeq(Descendants(rpid))
            /\ ridx' = 1
            /\ rpc' = "r_terminate"
       ELSE \* psutil.NoSuchProcess: pass
            /\ rpc' = "r_return"
            /\ UNCHANGED <<rchildren, ridx>>
    /\ UNCHANGED <<rpid, rstill, rraised>>
    /\ UNCHANGED <<cfgVars, now, callerVars, handoffVars, workerVars, procVars,
                   sigVars, histVars>>

\* for child in children: child.terminate(); then wait_procs starts
r_terminate ==
    /\ rpc = "r_terminate"
    /\ IF ridx <= Len(rchildren)
       THEN /\ proc_terminate(rchildren[ridx])
            /\ ridx' = ridx + 1
            /\ UNCHANGED <<rpc, wakeAt>>
       ELSE /\ rpc' = "r_wait_procs"
            /\ wakeAt' = now + GraceWindow
            /\ UNCHANGED <<ridx, procVars, sigVars>>
    /\ UNCHANGED <<rpid, rchildren, rstill, rraised>>
    /\ UNCHANGED <<cfgVars, now, pc, child_processes, idx, still_alive, outcome, outExc,
                   timedOut, handoffVars, workerVars, histVars>>

\* _, still_alive = psutil.wait_procs(children, timeout=3)
r_wait_procs ==
    /\ rpc = "r_wait_procs"
    /\ wait_procs_ready(rchildren)
    /\ rstill' = wait_procs_alive(rchildren)
    /\ SetTable(StatusAfterReap({p \in Range(rchildren) : parent[p] = current_pid}), parent)
    /\ ridx' = 1
    /\ rpc' = "r_kill"
    /\ UNCHANGED <<rpid, rchildren, rraised>>
    /\ UNCHANGED <<cfgVars, now, callerVars, handoffVars, workerVars, sigVars, histVars>>

\* for proc in still_alive: proc.kill()
r_kill ==
    /\ rpc = "r_kill"
    /\ IF ridx <= Len(rstill)
       THEN /\ proc_kill(rstill[ridx])
            /\ ridx' = ridx + 1
            /\ UNCHANGED rpc
       ELSE /\ rpc' = "r_parent_terminate"
            /\ UNCHANGED <<ridx, procVars, sigVars>>
    /\ UNCHANGED <<rpid, rchildren, rstill, rraised>>
    /\ UNCHANGED <<cfgVars, now, callerVars, handoffVars, workerVars, histVars>>

\* parent.terminate()
r_parent_terminate ==
    /\ rpc = "r_parent_terminate"
    /\ proc_terminate(rpid)
    /\ IF Exists(rpid)
       THEN /\ rpc' = "r_parent_wait"
            /\ wakeAt' = now + GraceWindow
       ELSE \* psutil.NoSuchProcess: pass
            /\ rpc' = "r_return"
            /\ UNCHANGED wakeAt
    /\ UNCHANGED <<rpid, rchildren, ridx, rstill, rraised>>
    /\ UNCHANGED <<cfgVars, now, pc, child_processes, idx, still_alive, outcome, outExc,
                   timedOut, handoffVars, workerVars, histVars>>

\* parent.wait(3): returns when the process is gone, raises psutil.TimeoutExpired
\* (which the except psutil.NoSuchProcess clause does not catch) after 3 seconds
r_parent_wait ==
    /\ rpc = "r_parent_wait"
    /\ GoneForWait(rpid) \/ now >= wakeAt
    /\ IF GoneForWait(rpid)
       THEN /\ SetTable(StatusAfterReap({rpid} \cap Pids), parent)
            /\ rpc' = "r_is_running"
            /\ UNCHANGED rraised
       ELSE /\ rraised' = TRUE
            /\ rpc' = "r_return"
            /\ UNCHANGED procVars
    /\ UNCHANGED <<rpid, rchildren, ridx, rstill>>
    /\ UNCHANGED <<cfgVars, now, callerVars, handoffVars, workerVars, sigVars, histVars>>

\* if parent.is_running(): parent.kill()
r_is_running ==
    /\ rpc = "r_is_running"
    /\ IF Running(rpid)
       THEN proc_kill(rpid)
       ELSE UNCHANGED <<procVars, sigVars>>
    /\ rpc' = "r_return"
    /\ UNCHANGED <<rpid, rchildren, ridx, rstill, rraised>>
    /\ UNCHANGED <<cfgVars, now, callerVars, handoffVars, workerVars, histVars>>

terminate_process_and_children ==
    \/ r_process
    \/ r_terminate
    \/ r_wait_procs
    \/ r_kill
    \/ r_parent_terminate
    \/ r_parent_wait
    \/ r_is_running

\* ------------------------------------------------------------ timeout_handler
\* thread.is_alive(): started and target() not yet over
thread_is_alive == wpc \notin {"idle", "dead"}

\* thread = threading.Thread(target=target); thread.start()
thread_start ==
    /\ pc = "thread_start"
    /\ wpc = "idle"
    /\ wpc' = "begin"
    /\ nstart' = nstart + 1
    /\ pc' = "thread_join"
    /\ wakeAt' = now + execution_timeout
    /\ UNCHANGED <<wexc, i, start_time, time_left, action, hist, file, reported, nstep, nwrite>>
    /\ UNCHANGED <<child_processes, idx, still_alive, outcome, outExc, timedOut>>
    /\ UNCHANGED <<cfgVars, now, handoffVars, reaperVars, procVars, sigVars, histVars>>

\* thread.join(timeout): returns when the thread is over or the timeout elapsed
thread_join ==
    /\ pc = "thread_join"
    /\ ~thread_is_alive \/ now >= wakeAt
    /\ pc' = "is_alive"
    /\ UNCHANGED <<wakeAt, child_processes, idx, still_alive, outcome, outExc, timedOut>>
    /\ UNCHANGED <<cfgVars, now, handoffVars, reaperVars, workerVars, procVars,
                   sigVars, histVars>>

\* a check that reclaims whether or not the thread is alive
th_check_alive_always ==
    /\ pc = "is_alive"
    /\ timedOut' = thread_is_alive
    /\ pc' = "snapshot"
    /\ UNCHANGED <<wakeAt, child_processes, idx, still_alive, outcome, outExc>>
    /\ UNCHANGED <<cfgVars, now, handoffVars, reaperVars, workerVars, procVars,
                   sigVars, histVars>>

\* if thread.is_alive():
th_check_alive ==
    /\ pc = "is_alive"
    /\ IF thread_is_alive
       THEN /\ timedOut' = TRUE
            /\ pc' = "snapshot"
       ELSE /\ pc' = "finish"
            /\ UNCHANGED timedOut
    /\ UNCHANGED <<wakeAt, child_processes, idx, still_alive, outcome, outExc>>
    /\ UNCHANGED <<cfgVars, now, handoffVars, reaperVars, workerVars, procVars,
                   sigVars, histVars>>

\* the snapshot's history: the first pid not yet handed out when it is taken
\* (every later process has a pid from there on), and the running members that
\* are no direct children of the supervising process
SnapshotHistory(procs) ==
    /\ snapPid' = nextPid
    /\ snapGrandchild' = {p \in Range(procs) : status[p] = "run" /\ parent[p] # current_pid}

\* current_pid = os.getpid(); child_processes = get_all_child_processes(current_pid)
th_snapshot ==
    /\ pc = "snapshot"
    /\ child_processes' = get_all_child_processes(current_pid)
    /\ SnapshotHistory(child_processes')
    /\ idx' = 1
    /\ pc' = "terminate"
    /\ UNCHANGED <<wakeAt, still_alive, outcome, outExc, timedOut>>
    /\ UNCHANGED <<cfgVars, now, handoffVars, reaperVars, workerVars, procVars, sigVars>>

\* a first pass whose wait_procs is given one time unit more than the grace window
th_terminate_longer_wait ==
    /\ pc = "terminate"
    /\ IF idx <= Len(child_processes)
       THEN /\ proc_terminate(child_processes[idx])
            /\ idx' = idx + 1
            /\ UNCHANGED <<pc, wakeAt>>
       ELSE /\ pc' = "wait_procs"
            /\ wakeAt' = now + GraceWindow + 1
            /\ UNCHANGED <<idx, procVars, sigVars>>
    /\ UNCHANGED <<child_processes, still_alive, outcome, outExc, timedOut>>
    /\ UNCHANGED <<cfgVars, now, handoffVars, reaperVars, workerVars, histVars>>

\* a terminate loop that is left at the first member that no longer exists
th_terminate_aborts_on_gone ==
    /\ pc = "terminate"
    /\ IF idx <= Len(child_processes) /\ Exists(child_processes[idx])
       THEN /\ proc_terminate(child_processes[idx])
            /\ idx' = idx + 1
            /\ UNCHANGED <<pc, wakeAt>>
       ELSE /\ pc' = "wait_procs"
            /\ wakeAt' = now + GraceWindow
            /\ UNCHANGED <<idx, procVars, sigVars>>
    /\ UNCHANGED <<child_processes, still_alive, outcome, outExc, timedOut>>
    /\ UNCHANGED <<cfgVars, now, handoffVars, reaperVars, workerVars, histVars>>

\* for proc in child_processes: proc.terminate(); then wait_procs starts
th_terminate ==
    /\ pc = "terminate"
    /\ IF idx <= Len(child_processes)
       THEN /\ proc_terminate(child_processes[idx])
            /\ idx' = idx + 1
            /\ UNCHANGED <<pc, wakeAt>>
       ELSE /\ pc' = "wait_procs"
            /\ wakeAt' = now + GraceWindow
            /\ UNCHANGED <<idx, procVars, sigVars>>
    /\ UNCHANGED <<child_processes, still_alive, outcome, outExc, timedOut>>
    /\ UNCHANGED <<cfgVars, now, handoffVars, reaperVars, workerVars, histVars>>

\* _, still_alive = psutil.wait_procs(child_processes, timeout=3)
th_wait_procs ==
    /\ pc = "wait_procs"
    /\ wait_procs_ready(child_processes)
    /\ still_alive' = wait_procs_alive(child_processes)
    /\ SetTable(StatusAfterReap({p \in Range(child_processes) : parent[p] = current_pid}),
                parent)
    /\ idx' = 1
    /\ pc' = "kill"
    /\ UNCHANGED <<wakeAt, child_processes, outcome, outExc, timedOut>>
    /\ UNCHANGED <<cfgVars, now, handoffVars, reaperVars, workerVars, sigVars, histVars>>

\* if still_alive: for proc in still_alive: proc.kill()
th_kill ==
    /\ pc = "kill"
    /\ IF idx <= Len(still_alive)
       THEN /\ proc_kill(still_alive[idx])
            /\ idx' = idx + 1
            /\ UNCHANGED pc
       ELSE /\ pc' = "second_pass"
            /\ idx' = 1
            /\ UNCHANGED <<procVars, sigVars>>
    /\ UNCHANGED <<wakeAt, child_processes, still_alive, outcome, outExc, timedOut>>
    /\ UNCHANGED <<cfgVars, now, handoffVars, reaperVars, workerVars, histVars>>

\* a second pass that hands over the supervising process's own pid
second_pass_pid_self(k) == current_pid

\* the pid handed to terminate_process_and_children in the second pass: proc.pid
second_pass_pid(k) == child_processes[k]

\* for proc in child_processes: try: terminate_process_and_children(proc.pid)
th_second_pass ==
    /\ pc = "second_pass"
    /\ IF idx <= Len(child_processes)
       THEN /\ pc' = "in_reaper"
            /\ rpc' = "r_process"
            /\ rpid' = second_pass_pid(idx)
            /\ rraised' = FALSE
       ELSE /\ pc' = "raise"
            /\ UNCHANGED <<rpc, rpid, rraised>>
    /\ UNCHANGED <<rchildren, ridx, rstill>>
    /\ UNCHANGED <<wakeAt, child_processes, idx, still_alive, outcome, outExc, timedOut>>
    /\ UNCHANGED <<cfgVars, now, handoffVars, workerVars, procVars, sigVars, histVars>>

\* terminate_process_and_children returned, or raised into
\* except Exception as e: print(...); the loop goes on
th_second_pass_next ==
    /\ pc = "in_reaper"
    /\ rpc = "r_return"
    /\ rpc' = "idle"
    /\ rchildren' = <<>>
    /\ rstill' = <<>>
    /\ ridx' = 1
    /\ rraised' = FALSE
    /\ rpid' = current_pid
    /\ idx' = idx + 1
    /\ pc' = "second_pass"
    /\ UNCHANGED <<wakeAt, child_processes, still_alive, outcome, outExc, timedOut>>
    /\ UNCHANGED <<cfgVars, now, handoffVars, workerVars, procVars, sigVars, histVars>>

\* a raise that also stops the worker thread
th_raise_timeout_cancels ==
    /\ pc = "raise"
    /\ outcome' = "timeout"
    /\ outExc' = "TimeoutError"
    /\ pc' = "done"
    /\ child_processes' = <<>>
    /\ still_alive' = <<>>
    /\ idx' = 1
    /\ wakeAt' = 0
    /\ wpc' = "dead"
    /\ UNCHANGED <<wexc, i, start_time, time_left, action, hist, file, reported, nstart, nstep, nwrite>>
    /\ UNCHANGED timedOut
    /\ UNCHANGED <<cfgVars, now, handoffVars, reaperVars, procVars, sigVars, histVars>>

\* an end of the reclamation that hands over the worker's result or exception
\* when the worker has finished in the meantime
th_raise_timeout_late_result ==
    /\ pc = "raise"
    /\ outcome' = IF completed THEN "returned"
                  ELSE IF exception # "None" THEN "reraised" ELSE "timeout"
    /\ outExc' = IF completed THEN outExc
                 ELSE IF exception # "None" THEN exception ELSE "TimeoutError"
    /\ pc' = "done"
    /\ child_processes' = <<>>
    /\ still_alive' = <<>>
    /\ idx' = 1
    /\ wakeAt' = 0
    /\ UNCHANGED timedOut
    /\ UNCHANGED <<cfgVars, now, handoffVars, reaperVars, workerVars, procVars,
                   sigVars, histVars>>

\* raise TimeoutError(f"Function execution timed out after {timeout} seconds"):
\* the call is over and its locals are gone
th_raise_timeout ==
    /\ pc = "raise"
    /\ outcome' = "timeout"
    /\ outExc' = "TimeoutError"
    /\ pc' = "done"
    /\ child_processes' = <<>>
    /\ still_alive' = <<>>
    /\ idx' = 1
    /\ wakeAt' = 0
    /\ UNCHANGED timedOut
    /\ UNCHANGED <<cfgVars, now, handoffVars, reaperVars, workerVars, procVars,
                   sigVars, histVars>>

\* if exception[0] is not None: raise exception[0];  return result[0]
th_finish ==
    /\ pc = "finish"
    /\ IF exception # "None"
       THEN /\ outcome' = "reraised"
            /\ outExc' = exception
       ELSE /\ outcome' = "returned"
            /\ UNCHANGED outExc
    /\ pc' = "done"
    /\ UNCHANGED <<wakeAt, child_processes, idx, still_alive, timedOut>>
    /\ UNCHANGED <<cfgVars, now, handoffVars, reaperVars, workerVars, procVars,
                   sigVars, histVars>>

timeout_handler ==
    \/ thread_start
    \/ thread_join
    \/ th_check_alive
    \/ th_snapshot
    \/ th_terminate
    \/ th_wait_procs
    \/ th_kill
    \/ th_second_pass
    \/ th_second_pass_next
    \/ th_raise_timeout
    \/ th_finish

\* ---------------------------------------------------------------- the runners
\* time.time() - start_time >= execution_timeout
time_exceeded == now - start_time >= execution_timeout

OpenPc(f) == CASE f = 1 -> "open1" [] f = 2 -> "open2" [] OTHER -> "open3"
DumpPc(f) == CASE f = 1 -> "dump1" [] f = 2 -> "dump2" [] OTHER -> "dump3"
\* after the with-block of file f: the next with-block, or env.step
AfterFile(f) == IF f < 3 THEN OpenPc(f + 1) ELSE "step"
\* 1 when leaving the with-block of file f calls env.step, else 0
StepCalled(f) == IF AfterFile(f) = "step" THEN 1 ELSE 0
\* the runner is inside env.step
InEnvStep == wpc \in {"step", "acb"}

\* timeout_handler.target, once func has returned ("ret") or raised ("exc"):
\*     try: result[0] = func(*args, **kwargs); completed[0] = True
\*     except Exception as e: exception[0] = e
\* A BaseException that is no Exception ends the thread with nothing recorded.
target(how, e) ==
    IF how = "ret"
    THEN /\ result' = "value"
         /\ completed' = TRUE
         /\ UNCHANGED exception
    ELSE /\ exception' = IF e \in {"Exception", "TimeoutError"} THEN e ELSE exception
         /\ UNCHANGED <<result, completed>>

\* The runner returns ("ret") or raises e ("exc"): its locals are gone.  Under
\* timeout_handler the thread's target() records the outcome and the thread is
\* over; under asyncio the finished task waits for wait_for to resume.
run_exit(how, e) ==
    /\ wexc' = e
    /\ i' = 0
    /\ start_time' = 0
    /\ time_left' = 0
    /\ action' = "None"
    /\ IF agent_type = "openai"
       THEN /\ wpc' = how
            /\ UNCHANGED handoffVars
       ELSE /\ wpc' = "dead"
            /\ target(how, e)

\* a runner whose clock started one time unit before it was called
run_begin_clock_early ==
    /\ wpc = "begin"
    /\ start_time' = now - 1
    /\ i' = 0
    /\ wpc' = "loop"
    /\ UNCHANGED <<wexc, time_left, action, hist, file, reported, nstart, nstep, nwrite>>
    /\ UNCHANGED <<cfgVars, now, callerVars, handoffVars, reaperVars, procVars,
                   sigVars, histVars>>

\* action_left = config['env']['max_steps']; ...; start_time = time.time()
run_begin ==
    /\ wpc = "begin"
    /\ start_time' = now
    /\ i' = 0
    /\ wpc' = "loop"
    /\ UNCHANGED <<wexc, time_left, action, hist, file, reported, nstart, nstep, nwrite>>
    /\ UNCHANGED <<cfgVars, now, callerVars, handoffVars, reaperVars, procVars,
                   sigVars, histVars>>

\* a loop that runs one iteration more than the step budget
run_loop_one_more ==
    /\ wpc = "loop"
    /\ agent_type \in {"mle", "openai"}
    /\ IF i <= max_steps
       THEN /\ time_left' = Max(0, execution_timeout - (now - start_time))
            /\ wpc' = "act"
            /\ UNCHANGED <<i, start_time, action, wexc, handoffVars>>
       ELSE run_exit("ret", "None")
    /\ UNCHANGED <<hist, file, reported, nstart, nstep, nwrite>>
    /\ UNCHANGED <<cfgVars, now, callerVars, reaperVars, procVars, sigVars, histVars>>

\* run_mle_agent / run_openai_agent: for i in range(action_left):
\*     time_left = max(0, execution_timeout - elapsed_time)
\* (the loop exhausted: logger.info("... agent run finished."), return)
run_loop ==
    /\ wpc = "loop"
    /\ agent_type \in {"mle", "openai"}
    /\ IF i < max_steps
       THEN /\ time_left' = Max(0, execution_timeout - (now - start_time))
            /\ wpc' = "act"
            /\ UNCHANGED <<i, start_time, action, wexc, handoffVars>>
       ELSE run_exit("ret", "None")
    /\ UNCHANGED <<hist, file, reported, nstart, nstep, nwrite>>
    /\ UNCHANGED <<cfgVars, now, callerVars, reaperVars, procVars, sigVars, histVars>>

\* an act step that writes the three history files before it breaks on "End"
\* or "Error"
run_act_writes_on_stop ==
    /\ wpc = "act"
    /\ agent_type \in {"mle", "openai"}
    /\ hist' = hist + 1
    /\ \E a \in ActionTags :
          IF a \in {"Error", "End"}
          THEN /\ reported' = reported \cup {IF a = "Error" THEN "AgentError"
                                                 ELSE "AgentRequestedStop"}
               /\ file' = [f \in Files |-> hist']
               /\ nwrite' = nwrite + 3
               /\ run_exit("ret", "None")
          ELSE /\ action' = a
               /\ wpc' = OpenPc(1)
               /\ UNCHANGED <<reported, i, start_time, time_left, file, nwrite>>
               /\ UNCHANGED <<wexc, handoffVars>>
    /\ UNCHANGED <<nstart, nstep>>
    /\ UNCHANGED <<cfgVars, now, callerVars, reaperVars, procVars, sigVars, histVars>>

\* run_mle_agent / run_openai_agent: action, params = agent.act(...) returns;
\* "Error" and "End" are logged and break the loop
run_act ==
    /\ wpc = "act"
    /\ agent_type \in {"mle", "openai"}
    /\ hist' = hist + 1
    /\ \E a \in ActionTags :
          CASE a = "Error" -> /\ reported' = reported \cup {"AgentError"}
                              /\ run_exit("ret", "None")
            [] a = "End" -> /\ reported' = reported \cup {"AgentRequestedStop"}
                            /\ run_exit("ret", "None")
            [] OTHER -> /\ action' = a
                        /\ wpc' = OpenPc(1)
                        /\ UNCHANGED <<reported, i, start_time, time_left>>
                        /\ UNCHANGED <<wexc, handoffVars>>
    /\ UNCHANGED <<file, nstart, nstep, nwrite>>
    /\ UNCHANGED <<cfgVars, now, callerVars, reaperVars, procVars, sigVars, histVars>>

\* run_dummy_agent guards each with-block by hasattr(agent, <history>);
\* run_mle_agent and run_openai_agent open every file
Guarded(f) == agent_type = "dummy" /\ f \notin has

\* with open(<file>, 'w') as f: the file is truncated (run_dummy_agent skips the
\* with-block when the agent lacks the history)
run_open ==
    /\ \E f \in Files :
          /\ wpc = OpenPc(f)
          /\ IF ~Guarded(f)
             THEN /\ file' = [file EXCEPT ![f] = -1]
                  /\ nwrite' = nwrite + 1
                  /\ wpc' = DumpPc(f)
                  /\ UNCHANGED nstep
             ELSE /\ wpc' = AfterFile(f)
                  /\ nstep' = nstep + StepCalled(f)
                  /\ UNCHANGED <<file, nwrite>>
    /\ UNCHANGED <<wexc, i, start_time, time_left, action, hist, reported, nstart>>
    /\ UNCHANGED <<cfgVars, now, callerVars, handoffVars, reaperVars, procVars,
                   sigVars, histVars>>

\* json.dump(agent.<history>, f, indent=4) and the close of the with-block; the
\* attribute access raises AttributeError when the agent lacks the history, and
\* the file stays as open() left it
run_dump ==
    /\ \E f \in Files :
          /\ wpc = DumpPc(f)
          /\ IF f \in has
             THEN /\ file' = [file EXCEPT ![f] = hist]
                  /\ wpc' = AfterFile(f)
                  /\ nstep' = nstep + StepCalled(f)
                  /\ UNCHANGED <<wexc, i, start_time, time_left, action, handoffVars>>
             ELSE /\ run_exit("exc", "Exception")
                  /\ UNCHANGED <<file, nstep>>
    /\ UNCHANGED <<hist, reported, nstart, nwrite>>
    /\ UNCHANGED <<cfgVars, now, callerVars, reaperVars, procVars, sigVars, histVars>>

\* an env.step whose return is followed by another write of the history files
run_step_writes_after ==
    /\ wpc = "step"
    /\ agent_type \in {"mle", "openai"}
    /\ wpc' = "check"
    /\ file' = [f \in Files |-> hist]
    /\ nwrite' = nwrite + 3
    /\ UNCHANGED <<wexc, i, start_time, time_left, action, hist, reported, nstart, nstep>>
    /\ UNCHANGED <<cfgVars, now, callerVars, handoffVars, reaperVars, procVars,
                   sigVars, histVars>>

\* run_mle_agent / run_openai_agent: obs, reward = env.step(action, **params) returns
run_step ==
    /\ wpc = "step"
    /\ agent_type \in {"mle", "openai"}
    /\ wpc' = "check"
    /\ UNCHANGED <<wexc, i, start_time, time_left, action, hist, file, reported, nstart, nstep, nwrite>>
    /\ UNCHANGED <<cfgVars, now, callerVars, handoffVars, reaperVars, procVars,
                   sigVars, histVars>>

\* a check that never looks at the clock
run_check_ignores_time ==
    /\ wpc = "check"
    /\ i' = i + 1
    /\ wpc' = "loop"
    /\ UNCHANGED <<reported, start_time, time_left, action, wexc, handoffVars>>
    /\ UNCHANGED <<hist, file, nstart, nstep, nwrite>>
    /\ UNCHANGED <<cfgVars, now, callerVars, reaperVars, procVars, sigVars, histVars>>

\* a check that counts the finished iteration twice
run_check_counts_twice ==
    /\ wpc = "check"
    /\ IF time_exceeded
       THEN /\ reported' = reported \cup {"TimeExhausted"}
            /\ run_exit("ret", "None")
       ELSE /\ i' = i + 2
            /\ wpc' = "loop"
            /\ UNCHANGED <<reported, start_time, time_left, action, wexc, handoffVars>>
    /\ UNCHANGED <<hist, file, nstart, nstep, nwrite>>
    /\ UNCHANGED <<cfgVars, now, callerVars, reaperVars, procVars, sigVars, histVars>>

\* run_mle_agent / run_openai_agent: if elapsed_time >= execution_timeout: break
run_check ==
    /\ wpc = "check"
    /\ IF time_exceeded
       THEN /\ reported' = reported \cup {"TimeExhausted"}
            /\ run_exit("ret", "None")
       ELSE /\ i' = i + 1
            /\ wpc' = "loop"
            /\ UNCHANGED <<reported, start_time, time_left, action, wexc, handoffVars>>
    /\ UNCHANGED <<hist, file, nstart, nstep, nwrite>>
    /\ UNCHANGED <<cfgVars, now, callerVars, reaperVars, procVars, sigVars, histVars>>

\* agent.act, agent.step or env.step raises
run_raise ==
    /\ wpc \in {"act", "step", "astep", "acb"}
    /\ \E e \in ExcKinds : run_exit("exc", e)
    /\ UNCHANGED <<hist, file, reported, nstart, nstep, nwrite>>
    /\ UNCHANGED <<cfgVars, now, callerVars, reaperVars, procVars, sigVars, histVars>>

\* run_dummy_agent: for i in range(action_left): if elapsed_time >= execution_timeout: break
dummy_loop ==
    /\ wpc = "loop"
    /\ agent_type = "dummy"
    /\ IF i < max_steps
       THEN IF time_exceeded
            THEN /\ reported' = reported \cup {"TimeExhausted"}
                 /\ run_exit("ret", "None")
            ELSE /\ wpc' = "act"
                 /\ UNCHANGED <<reported, i, start_time, time_left, action>>
                 /\ UNCHANGED <<wexc, handoffVars>>
       ELSE /\ run_exit("ret", "None")
            /\ UNCHANGED reported
    /\ UNCHANGED <<hist, file, nstart, nstep, nwrite>>
    /\ UNCHANGED <<cfgVars, now, callerVars, reaperVars, procVars, sigVars, histVars>>

\* run_dummy_agent: action, params = agent.act(obs); the tag is not inspected
dummy_act ==
    /\ wpc = "act"
    /\ agent_type = "dummy"
    /\ \E a \in ActionTags : action' = a
    /\ hist' = hist + 1
    /\ wpc' = OpenPc(1)
    /\ UNCHANGED <<wexc, i, start_time, time_left, file, reported, nstart, nstep, nwrite>>
    /\ UNCHANGED <<cfgVars, now, callerVars, handoffVars, reaperVars, procVars,
                   sigVars, histVars>>

\* run_dummy_agent: obs, reward = env.step(action, **params) returns; next iteration
dummy_step ==
    /\ wpc = "step"
    /\ agent_type = "dummy"
    /\ i' = i + 1
    /\ wpc' = "loop"
    /\ UNCHANGED <<wexc, start_time, time_left, action, hist, file, reported, nstart, nstep, nwrite>>
    /\ UNCHANGED <<cfgVars, now, callerVars, handoffVars, reaperVars, procVars,
                   sigVars, histVars>>

\* run_aide_agent: for i in range(steps): if elapsed_time >= execution_timeout: break
aide_loop ==
    /\ wpc = "loop"
    /\ agent_type = "aide"
    /\ IF i < max_steps
       THEN IF time_exceeded
            THEN /\ reported' = reported \cup {"TimeExhausted"}
                 /\ run_exit("ret", "None")
            ELSE /\ wpc' = "astep"
                 /\ UNCHANGED <<reported, i, start_time, time_left, action>>
                 /\ UNCHANGED <<wexc, handoffVars>>
       ELSE /\ run_exit("ret", "None")
            /\ UNCHANGED reported
    /\ UNCHANGED <<hist, file, nstart, nstep, nwrite>>
    /\ UNCHANGED <<cfgVars, now, callerVars, reaperVars, procVars, sigVars, histVars>>

\* run_aide_agent: agent.step(exec_callback=exec_callback) drafts its code and
\* calls exec_callback (env.step("execute_code", code=code)), or returns without
aide_agent_step ==
    /\ wpc = "astep"
    /\ action' = "execute_code"
    /\ hist' = hist + 1
    /\ \E called \in BOOLEAN :
          /\ wpc' = IF called THEN "acb" ELSE "asave"
          /\ nstep' = IF called THEN nstep + 1 ELSE nstep
    /\ UNCHANGED <<wexc, i, start_time, time_left, file, reported, nstart, nwrite>>
    /\ UNCHANGED <<cfgVars, now, callerVars, handoffVars, reaperVars, procVars,
                   sigVars, histVars>>

\* run_aide_agent: exec_callback's env.step returns and agent.step returns
aide_exec_callback ==
    /\ wpc = "acb"
    /\ wpc' = "asave"
    /\ UNCHANGED <<wexc, i, start_time, time_left, action, hist, file, reported, nstart, nstep, nwrite>>
    /\ UNCHANGED <<cfgVars, now, callerVars, handoffVars, reaperVars, procVars,
                   sigVars, histVars>>

\* run_aide_agent: save_run(cfg, journal); next iteration
aide_save_run ==
    /\ wpc = "asave"
    /\ file' = [file EXCEPT ![1] = hist]
    /\ nwrite' = nwrite + 1
    /\ i' = i + 1
    /\ wpc' = "loop"
    /\ UNCHANGED <<wexc, start_time, time_left, action, hist, reported, nstart, nstep>>
    /\ UNCHANGED <<cfgVars, now, callerVars, handoffVars, reaperVars, procVars,
                   sigVars, histVars>>

runner ==
    \/ run_begin
    \/ run_loop
    \/ run_act
    \/ run_open
    \/ run_dump
    \/ run_step
    \/ run_check
    \/ run_raise
    \/ dummy_loop
    \/ dummy_act
    \/ dummy_step
    \/ aide_loop
    \/ aide_agent_step
    \/ aide_exec_callback
    \/ aide_save_run

\* ---------------------------------------------------- run_openai_with_timeout
\* await asyncio.wait_for(run_openai_agent(...), timeout=timeout): the coroutine
\* is started as a task; with timeout <= 0 it is cancelled before its first step
wait_for_start ==
    /\ pc = "wait_for_start"
    /\ wpc = "idle"
    /\ wakeAt' = now + execution_timeout
    /\ IF execution_timeout <= 0
       THEN /\ wpc' = "cancelled"
            /\ timedOut' = TRUE
            /\ pc' = "o_snapshot"
            /\ UNCHANGED nstart
       ELSE /\ wpc' = "begin"
            /\ nstart' = nstart + 1
            /\ pc' = "wait_for"
            /\ UNCHANGED timedOut
    /\ UNCHANGED <<wexc, i, start_time, time_left, action, hist, file, reported, nstep, nwrite>>
    /\ UNCHANGED <<child_processes, idx, still_alive, outcome, outExc>>
    /\ UNCHANGED <<cfgVars, now, handoffVars, reaperVars, procVars, sigVars, histVars>>

\* the timeout fires while the coroutine is suspended in await agent.act(...):
\* the task is cancelled and wait_for raises asyncio.TimeoutError
wait_for_timeout ==
    /\ pc = "wait_for"
    /\ wpc = "act"
    /\ now >= wakeAt
    /\ wpc' = "cancelled"
    /\ timedOut' = TRUE
    /\ pc' = "o_snapshot"
    /\ UNCHANGED <<wexc, i, start_time, time_left, action, hist, file, reported, nstart, nstep, nwrite>>
    /\ UNCHANGED <<wakeAt, child_processes, idx, still_alive, outcome, outExc>>
    /\ UNCHANGED <<cfgVars, now, handoffVars, reaperVars, procVars, sigVars, histVars>>

\* the coroutine returned: logger.info("OpenAI agent finished within timeout."),
\* or it raised and the exception leaves run_openai_with_timeout.  A
\* TimeoutError raised by the coroutine itself is caught by
\* except asyncio.TimeoutError where asyncio.TimeoutError is the builtin
\* TimeoutError (Python 3.11 and later), and leaves the function otherwise.
wait_for_done ==
    /\ pc = "wait_for"
    /\ wpc \in {"ret", "exc"}
    /\ \E aliased \in BOOLEAN :
          CASE wpc = "ret" ->
                   /\ ~aliased
                   /\ outcome' = "returned"
                   /\ pc' = "done"
                   /\ UNCHANGED outExc
            [] wpc = "exc" /\ wexc = "TimeoutError" /\ aliased ->
                   /\ pc' = "o_snapshot"
                   /\ UNCHANGED <<outcome, outExc>>
            [] OTHER ->
                   /\ ~aliased
                   /\ outcome' = "reraised"
                   /\ outExc' = wexc
                   /\ pc' = "done"
    /\ wpc' = "dead"
    /\ UNCHANGED <<wexc, i, start_time, time_left, action, hist, file, reported, nstart, nstep, nwrite>>
    /\ UNCHANGED <<wakeAt, child_processes, idx, still_alive, timedOut>>
    /\ UNCHANGED <<cfgVars, now, handoffVars, reaperVars, procVars, sigVars, histVars>>

\* except asyncio.TimeoutError: current_pid = os.getpid();
\* child_processes = get_all_child_processes(current_pid)
o_snapshot ==
    /\ pc = "o_snapshot"
    /\ child_processes' = get_all_child_processes(current_pid)
    /\ SnapshotHistory(child_processes')
    /\ idx' = 1
    /\ pc' = "o_terminate"
    /\ UNCHANGED <<wakeAt, still_alive, outcome, outExc, timedOut>>
    /\ UNCHANGED <<cfgVars, now, handoffVars, reaperVars, workerVars, procVars, sigVars>>

\* for proc in child_processes: proc.terminate(); then wait_procs starts
o_terminate ==
    /\ pc = "o_terminate"
    /\ IF idx <= Len(child_processes)
       THEN /\ proc_terminate(child_processes[idx])
            /\ idx' = idx + 1
            /\ UNCHANGED <<pc, wakeAt>>
       ELSE /\ pc' = "o_wait_procs"
            /\ wakeAt' = now + GraceWindow
            /\ UNCHANGED <<idx, procVars, sigVars>>
    /\ UNCHANGED <<child_processes, still_alive, outcome, outExc, timedOut>>
    /\ UNCHANGED <<cfgVars, now, handoffVars, reaperVars, workerVars, histVars>>

\* _, still_alive = psutil.wait_procs(child_processes, timeout=3)
o_wait_procs ==
    /\ pc = "o_wait_procs"
    /\ wait_procs_ready(child_processes)
    /\ still_alive' = wait_procs_alive(child_processes)
    /\ SetTable(StatusAfterReap({p \in Range(child_processes) : parent[p] = current_pid}),
                parent)
    /\ idx' = 1
    /\ pc' = "o_kill"
    /\ UNCHANGED <<wakeAt, child_processes, outcome, outExc, timedOut>>
    /\ UNCHANGED <<cfgVars, now, handoffVars, reaperVars, workerVars, sigVars, histVars>>

\* for proc in still_alive: proc.kill(); then the except block ends and
\* run_openai_with_timeout returns None, its locals gone
o_kill ==
    /\ pc = "o_kill"
    /\ IF idx <= Len(still_alive)
       THEN /\ proc_kill(still_alive[idx])
            /\ idx' = idx + 1
            /\ UNCHANGED <<pc, outcome, child_processes, still_alive, wakeAt>>
       ELSE /\ pc' = "done"
            /\ outcome' = "returned"
            /\ child_processes' = <<>>
            /\ still_alive' = <<>>
            /\ idx' = 1
            /\ wakeAt' = 0
            /\ UNCHANGED <<procVars, sigVars>>
    /\ UNCHANGED <<outExc, timedOut>>
    /\ UNCHANGED <<cfgVars, now, handoffVars, reaperVars, workerVars, histVars>>

run_openai_with_timeout ==
    \/ wait_for_start
    \/ wait_for_timeout
    \/ wait_for_done
    \/ o_snapshot
    \/ o_terminate
    \/ o_wait_procs
    \/ o_kill

\* ------------------------------------------------------------------- main
\* main(): the openai agent runs under asyncio.run(run_openai_with_timeout(...)),
\* every other agent under timeout_handler(execution_timeout, handler['run'], ...)
main ==
    /\ pc = "main"
    /\ pc' = IF agent_type = "openai" THEN "wait_for_start" ELSE "thread_start"
    /\ UNCHANGED <<wakeAt, child_processes, idx, still_alive, outcome, outExc, timedOut>>
    /\ UNCHANGED <<cfgVars, now, handoffVars, reaperVars, workerVars, procVars,
                   sigVars, histVars>>

Init ==
    /\ agent_type \in AgentTypes
    /\ max_steps \in 1..MaxSteps
    /\ execution_timeout \in 0..MaxTimeout
    /\ has \in (IF agent_type = "dummy" /\ max_steps = 1
                THEN {Files} \cup {Files \ {f} : f \in Files}
                ELSE {Files})
    /\ now = 0
    /\ pc = "main"
    /\ wakeAt = 0
    /\ child_processes = <<>>
    /\ idx = 1
    /\ still_alive = <<>>
    /\ outcome = "pending"
    /\ outExc = "None"
    /\ timedOut = FALSE
    /\ result = "None"
    /\ exception = "None"
    /\ completed = FALSE
    /\ rpc = "idle"
    /\ rpid = current_pid
    /\ rchildren = <<>>
    /\ ridx = 1
    /\ rstill = <<>>
    /\ rraised = FALSE
    /\ wpc = "idle"
    /\ wexc = "None"
    /\ i = 0
    /\ start_time = 0
    /\ time_left = 0
    /\ action = "None"
    /\ hist = 0
    /\ file = [f \in Files |-> 0]
    /\ reported = {}
    /\ nstart = 0
    /\ nstep = 0
    /\ nwrite = 0
    /\ status = [p \in Pids |-> "none"]
    /\ parent = [p \in Pids |-> InitPid]
    /\ nextPid = 1
    /\ termSent = {}
    /\ killSent = {}
    /\ snapPid = 1
    /\ snapGrandchild = {}
    /\ lateSpawn = {}

Next ==
    \/ main
    \/ timeout_handler
    \/ terminate_process_and_children
    \/ run_openai_with_timeout
    \/ runner
    \/ Tick
    \/ env_spawn
    \/ proc_fork
    \/ proc_exit
    \/ proc_reap

Spec == Init /\ [][Next]_vars

\* ------------------------------------------------ a runner called on its own
\* run_mle_agent / run_openai_agent / run_aide_agent / run_dummy_agent called
\* directly with a step budget and a time budget, no deadline above it and no
\* processes below it
InitRun ==
    /\ agent_type \in AgentTypes
    /\ max_steps \in 1..MaxSteps
    /\ execution_timeout \in 0..MaxBudget
    /\ has \in (IF agent_type = "dummy"
                THEN {Files} \cup {Files \ {f} : f \in Files}
                ELSE {Files})
    /\ now = 0
    /\ pc = "direct"
    /\ wakeAt = 0
    /\ child_processes = <<>>
    /\ idx = 1
    /\ still_alive = <<>>
    /\ outcome = "pending"
    /\ outExc = "None"
    /\ timedOut = FALSE
    /\ result = "None"
    /\ exception = "None"
    /\ completed = FALSE
    /\ rpc = "idle"
    /\ rpid = current_pid
    /\ rchildren = <<>>
    /\ ridx = 1
    /\ rstill = <<>>
    /\ rraised = FALSE
    /\ wpc = "begin"
    /\ wexc = "None"
    /\ i = 0
    /\ start_time = 0
    /\ time_left = 0
    /\ action = "None"
    /\ hist = 0
    /\ file = [f \in Files |-> 0]
    /\ reported = {}
    /\ nstart = 1
    /\ nstep = 0
    /\ nwrite = 0
    /\ status = [p \in Pids |-> "none"]
    /\ parent = [p \in Pids |-> InitPid]
    /\ nextPid = 1
    /\ termSent = {}
    /\ killSent = {}
    /\ snapPid = 1
    /\ snapGrandchild = {}
    /\ lateSpawn = {}

NextRun ==
    \/ runner
    \/ Tick

SpecRun == InitRun /\ [][NextRun]_vars

\* ------------------------------------- a runner called with any agent object
\* run_mle_agent / run_openai_agent / run_dummy_agent take agent: Any: the agent
\* has the three history mappings or lacks one of them
InitAnyAgent ==
    /\ agent_type \in AgentTypes
    /\ max_steps \in 1..MaxSteps
    /\ execution_timeout \in 0..MaxBudget
    /\ has \in (IF agent_type = "aide"
                THEN {Files}
                ELSE {Files} \cup {Files \ {f} : f \in Files})
    /\ now = 0
    /\ pc = "direct"
    /\ wakeAt = 0
    /\ child_processes = <<>>
    /\ idx = 1
    /\ still_alive = <<>>
    /\ outcome = "pending"
    /\ outExc = "None"
    /\ timedOut = FALSE
    /\ result = "None"
    /\ exception = "None"
    /\ completed = FALSE
    /\ rpc = "idle"
    /\ rpid = current_pid
    /\ rchildren = <<>>
    /\ ridx = 1
    /\ rstill = <<>>
    /\ rraised = FALSE
    /\ wpc = "begin"
    /\ wexc = "None"
    /\ i = 0
    /\ start_time = 0
    /\ time_left = 0
    /\ action = "None"
    /\ hist = 0
    /\ file = [f \in Files |-> 0]
    /\ reported = {}
    /\ nstart = 1
    /\ nstep = 0
    /\ nwrite = 0
    /\ status = [p \in Pids |-> "none"]
    /\ parent = [p \in Pids |-> InitPid]
    /\ nextPid = 1
    /\ termSent = {}
    /\ killSent = {}
    /\ snapPid = 1
    /\ snapGrandchild = {}
    /\ lateSpawn = {}

SpecAnyAgent == InitAnyAgent /\ [][NextRun]_vars

\* ------------------------------- terminate_process_and_children called on its own
\* the number of calls made in a row on the same pid
MaxCalls == 2

\* One process (pid 1) was started, by the supervising process or by someone
\* else; it may fork and exit before and between the calls.  No runner is
\* active.
InitReap ==
    /\ agent_type = "mle"
    /\ max_steps = 1
    /\ execution_timeout = 0
    /\ has = Files
    /\ now = 0
    /\ pc = "reap_call"
    /\ wakeAt = 0
    /\ child_processes = <<>>
    /\ idx = 1
    /\ still_alive = <<>>
    /\ outcome = "pending"
    /\ outExc = "None"
    /\ timedOut = FALSE
    /\ result = "None"
    /\ exception = "None"
    /\ completed = FALSE
    /\ rpc = "idle"
    /\ rpid = 1
    /\ rchildren = <<>>
    /\ ridx = 1
    /\ rstill = <<>>
    /\ rraised = FALSE
    /\ wpc = "dead"
    /\ wexc = "None"
    /\ i = 0
    /\ start_time = 0
    /\ time_left = 0
    /\ action = "None"
    /\ hist = 0
    /\ file = [f \in Files |-> 0]
    /\ reported = {}
    /\ nstart = 0
    /\ nstep = 0
    /\ nwrite = 0
    /\ status = [p \in Pids |-> IF p = 1 THEN "run" ELSE "none"]
    /\ parent \in {[p \in Pids |-> IF p = 1 THEN par ELSE InitPid] :
                      par \in {current_pid, InitPid}}
    /\ nextPid = 2
    /\ termSent = {}
    /\ killSent = {}
    /\ snapPid = 1
    /\ snapGrandchild = {}
    /\ lateSpawn = {}

\* def terminate_process_and_children(pid): the idx-th call on rpid starts
reap_call ==
    /\ pc = "reap_call"
    /\ pc' = "direct_reaper"
    /\ rpc' = "r_process"
    /\ rraised' = FALSE
    /\ UNCHANGED <<rpid, rchildren, ridx, rstill>>
    /\ UNCHANGED <<wakeAt, child_processes, idx, still_alive, outcome, outExc, timedOut>>
    /\ UNCHANGED <<cfgVars, now, handoffVars, workerVars, procVars, sigVars, histVars>>

\* the call is over (it returned, or raised to its caller); the next call on
\* the same pid follows
reap_return ==
    /\ pc = "direct_reaper"
    /\ rpc = "r_return"
    /\ idx <= MaxCalls
    /\ rpc' = "idle"
    /\ rchildren' = <<>>
    /\ rstill' = <<>>
    /\ ridx' = 1
    /\ idx' = idx + 1
    /\ pc' = IF idx < MaxCalls THEN "reap_call" ELSE "done"
    /\ UNCHANGED <<rpid, rraised>>
    /\ UNCHANGED <<wakeAt, child_processes, still_alive, outcome, outExc, timedOut>>
    /\ UNCHANGED <<cfgVars, now, handoffVars, workerVars, procVars, sigVars, histVars>>

NextReap ==
    \/ reap_call
    \/ terminate_process_and_children
    \/ reap_return
    \/ Tick
    \/ proc_fork
    \/ proc_exit

SpecReap == InitReap /\ [][NextReap]_vars

\* ------------------------------------------------- every shutdown sequence
\* the program as main runs it, or terminate_process_and_children called on
\* its own
InitShutdown == Init \/ InitReap

NextShutdown ==
    \/ Next
    \/ reap_call
    \/ reap_return

SpecShutdown == InitShutdown /\ [][NextShutdown]_vars

\* ================================================================ properties
\* the call of timeout_handler has ended (returned or raised)
HandlerEnded == agent_type # "openai" /\ pc = "done"
\* timeout_handler is about to execute raise TimeoutError(...)
AtRaise == pc = "raise"
\* run_openai_with_timeout has sent its last kill and is about to return
AtOpenaiReturn == pc = "o_kill" /\ idx > Len(still_alive)
\* the runner's call is over: it returned or raised
RunEnded == nstart > 0 /\ wpc \in {"ret", "exc", "dead"}
\* the termination causes a finished run has reported: the logged ones, and
\* the propagated failure when it ended by raising
Causes == reported \cup (IF wexc # "None" THEN {"PropagatedFailure"} ELSE {})
\* the files a runner persists its history to: save_run's journal for
\* run_aide_agent, the history files the agent has for the others
PersistSink == IF agent_type = "aide" THEN {1} ELSE has

\* C1: one call of timeout_handler starts func at most once, and when it has
\* ended the caller has exactly one of: func's return value (func returned and
\* its value is what is returned), func's exception re-raised, or TimeoutError
\* raised after the thread was seen alive at the deadline.
C1_ExactlyOneOutcome ==
    /\ nstart <= 1
    /\ HandlerEnded =>
          \/ outcome = "returned" /\ completed /\ result = "value"
          \/ outcome = "reraised" /\ wexc # "None" /\ outExc = wexc
          \/ outcome = "timeout" /\ timedOut /\ outExc = "TimeoutError"

\* C2: when timeout_handler is about to raise TimeoutError, and when
\* run_openai_with_timeout has finished its reclamation, no process of the
\* descendant snapshot is running any more.
C2_SnapshotDead ==
    (AtRaise \/ AtOpenaiReturn) =>
        \A p \in Range(child_processes) : status[p] # "run"

\* C2's case: timeout_handler is about to raise, and a grandchild that was in
\* the snapshot got the SIGTERM, did not exit on it, and was killed.
C2_Witness ==
    /\ AtRaise
    /\ \E p \in snapGrandchild \cap Range(child_processes) :
          p \in termSent /\ p \in killSent

C4_WorkerErrorReraised ==
    (HandlerEnded /\ ~timedOut /\ wexc # "None") =>
        (outcome = "reraised" /\ outExc = wexc)

\* C5: the caller of timeout_handler observes a TimeoutError only when the
\* deadline expired with the thread still alive, never for a run whose func
\* ended on its own.
C5_TimeoutDistinct ==
    (HandlerEnded /\ outcome # "returned" /\ outExc = "TimeoutError") => timedOut

\* C6: a supervised run whose deadline expired ends, under timeout_handler and
\* under run_openai_with_timeout alike, with the timeout outcome for its caller.
C6_TimeoutSignalled ==
    (pc = "done" /\ timedOut) => outcome = "timeout"

\* C7: neither a SIGTERM nor a SIGKILL is ever sent to the supervising process.
C7_HostNeverSignalled ==
    current_pid \notin termSent \cup killSent

\* C7's case: reclamation has run through both passes, and it has terminated
\* and killed descendants.
C7_Witness ==
    /\ AtRaise
    /\ termSent # {}
    /\ killSent # {}

C9_PersistBeforeApply ==
    InEnvStep => \A f \in PersistSink : file[f] = hist

\* C10: a run of a runner that has ended has reported exactly one termination
\* cause.
C10_ExactlyOneCause ==
    RunEnded => Cardinality(Causes) = 1

\* the runner's call is under way
RunActive == wpc \notin {"idle", "ret", "exc", "dead", "cancelled"}
\* steps_remaining as handed to agent.act: action_left - i
StepsRemaining == max_steps - i

\* C11: in run_mle_agent, run_openai_agent and run_dummy_agent, env.step is
\* never under way for an action whose tag is "Error" or "End".
C11_NoStepOnStopOrError ==
    (agent_type \in {"mle", "openai", "dummy"} /\ wpc = "step")
        => action \notin {"Error", "End"}

\* C12: while run_mle_agent or run_openai_agent runs, steps_remaining goes down
\* by exactly 1 when an iteration completes and changes at no other step, and
\* the time_left computed for an iteration is never larger than the one
\* computed for the iteration before.
C12_BudgetMonotone ==
    [][(agent_type \in {"mle", "openai"} /\ RunActive') =>
          /\ (wpc = "check" /\ wpc' = "loop") => StepsRemaining' = StepsRemaining - 1
          /\ ~(wpc = "check" /\ wpc' = "loop") => StepsRemaining' = StepsRemaining
          /\ (wpc = "loop" /\ wpc' = "act" /\ i > 0) => time_left' <= time_left]_vars

\* C12's case: the second iteration has been handed one step less and a
\* time_left that is smaller than the first one's and not yet 0.
C12_Witness ==
    /\ agent_type \in {"mle", "openai"}
    /\ wpc = "act"
    /\ StepsRemaining = max_steps - 1
    /\ 0 < time_left
    /\ time_left < execution_timeout

\* the run ended because the step loop was exhausted: it returned and no other
\* cause was logged
LoopExhausted == RunEnded /\ reported = {} /\ wexc = "None"
\* write rounds of the three history files that were started
HistoryWrites == (nwrite + 2) \div 3
\* a write round has been started and its env.step has not
WriteInProgress == wpc \in {"dump1", "open2", "dump2", "open3", "dump3"}

\* C13: while and after run_mle_agent or run_openai_agent runs, the three
\* history files hold the history through the same step, and none of them is
\* truncated or empty.
C13_ConsistentSnapshot ==
    agent_type \in {"mle", "openai"} =>
        /\ \A f, g \in Files : file[f] = file[g]
        /\ \A f \in Files : file[f] # -1

\* C14: a run never starts more env.step calls than its step budget N, and a
\* run that ends because the step loop is exhausted has made exactly N
\* env.step calls and persisted each history file exactly N times, the files
\* holding the history through step N.
C14_StepsExhausted ==
    agent_type \in {"mle", "openai", "dummy"} =>
        /\ nstep <= max_steps
        /\ LoopExhausted =>
              /\ nstep = max_steps
              /\ hist = max_steps
              /\ nwrite = max_steps * Cardinality(has)
              /\ \A f \in has : file[f] = max_steps

\* C14's case: run_mle_agent has used up a step budget of MaxSteps with no other
\* terminal condition.
C14_Witness ==
    /\ agent_type = "mle"
    /\ max_steps = MaxSteps
    /\ LoopExhausted
    /\ nstep = MaxSteps

\* C15: in run_mle_agent and run_openai_agent, when an env.step has returned
\* with the time budget used up, the completed steps are one more than the
\* completed iterations (one in all when it is the first), and the runner's
\* next step ends the run with TimeExhausted without another env.step.
C15_TimeExhausted ==
    [][(agent_type \in {"mle", "openai"} /\ wpc = "check" /\ time_exceeded
            /\ wpc' # "check") =>
          /\ nstep = i + 1
          /\ "TimeExhausted" \in reported'
          /\ ~RunActive'
          /\ nstep' = nstep]_vars

\* C15's case: with a step budget of MaxSteps the first env.step outlasted the
\* time budget and the run ended with TimeExhausted after that one step.
C15_Witness ==
    /\ agent_type = "mle"
    /\ max_steps = MaxSteps
    /\ execution_timeout > 0
    /\ RunEnded
    /\ reported = {"TimeExhausted"}
    /\ nstep = 1

\* C16: in run_mle_agent and run_openai_agent the write rounds started equal
\* the env.step calls started, or exceed them by one exactly while a round is
\* written and its env.step not yet called; the iteration in which the agent
\* returns stop or error writes nothing and steps nothing (none at all when it
\* is the first).
C16_WritesMatchSteps ==
    agent_type \in {"mle", "openai"} =>
        /\ HistoryWrites \in {nstep, nstep + 1}
        /\ HistoryWrites = nstep + 1 <=> WriteInProgress
        /\ (RunEnded /\ reported \cap {"AgentError", "AgentRequestedStop"} # {}) =>
              /\ nstep = hist - 1
              /\ nwrite = 3 * (hist - 1)
              /\ \A f \in Files : file[f] = hist - 1

\* C16's case: the agent returned stop on its first call and the run is over.
C16_Witness ==
    /\ agent_type \in {"mle", "openai"}
    /\ RunEnded
    /\ reported = {"AgentRequestedStop"}
    /\ hist = 1
    /\ nstep = 0
    /\ nwrite = 0

\* C17: under timeout_handler, once agent.act or env.step has raised, the
\* runner makes no further agent.act, history write or env.step and the history
\* files stay as they are; and when timeout_handler ends without having seen
\* the thread alive at the deadline, that exception is what it raises to its
\* caller.
C17_ExceptionNotRetried ==
    /\ [][(agent_type # "openai" /\ wexc # "None") =>
             UNCHANGED <<wpc, wexc, hist, file, nstep, nwrite>>]_vars
    /\ []((HandlerEnded /\ ~timedOut /\ wexc # "None") =>
             (outcome = "reraised" /\ outExc = wexc /\ exception = wexc))

\* C18: when timeout_handler finds the thread over at thread.is_alive() it goes
\* on to return or re-raise; and on that path it has taken no descendant
\* snapshot and sent no terminate and no kill to any process.
C18_NoCleanupOnCompletion ==
    /\ [][(agent_type # "openai" /\ pc = "is_alive" /\ ~thread_is_alive /\ pc' # pc)
             => pc' = "finish"]_vars
    /\ []((agent_type # "openai" /\ (pc = "finish" \/ (pc = "done" /\ outcome # "timeout")))
             => (termSent = {} /\ killSent = {} /\ child_processes = <<>>
                 /\ snapGrandchild = {} /\ ~timedOut))

\* C18's case: timeout_handler has returned func's value while a child process
\* that func spawned is still running.
C18_Witness ==
    /\ HandlerEnded
    /\ outcome = "returned"
    /\ completed
    /\ \E p \in Pids : status[p] = "run" /\ parent[p] = current_pid

\* C19: a call of terminate_process_and_children on a pid that has no
\* descendant left (its children have exited, or the pid itself is gone) raises
\* no error and is a no-op: no step of the call sends a signal or changes the
\* state of a process.
C19_IdempotentNoOp ==
    /\ [][(InReaper /\ rchildren' = <<>> /\ rpc' # rpc)
             => UNCHANGED <<status, termSent, killSent>>]_vars
    /\ []((InReaper /\ rchildren = <<>>) => ~rraised)

\* C20: timeout_handler is called at time 0, and when it raises TimeoutError
\* (the unit of work was still running at the deadline, with any number of
\* descendants, honouring SIGTERM or not) the time is at most the deadline plus
\* one grace window.
C20_RaiseWithinGrace ==
    /\ (pc = "thread_start" => now = 0)
    /\ (AtRaise => now <= execution_timeout + GraceWindow)

\* the raise comes a full grace window after the deadline: a snapshot member
\* ignored SIGTERM and was killed
C20_Witness ==
    /\ AtRaise
    /\ now = execution_timeout + GraceWindow
    /\ killSent # {}
    /\ Len(child_processes) > 1

\* the runner is in one of the three with-blocks
InHistoryWrite == wpc \in {OpenPc(f) : f \in Files} \cup {DumpPc(f) : f \in Files}

\* C21: in run_mle_agent, run_openai_agent and run_dummy_agent, whichever
\* history mappings the agent has: no step of the history write ends the run,
\* the file of a mapping the agent lacks is never written, and when env.step is
\* under way the file of every mapping the agent has holds the current history.
C21_MissingMappingTolerated ==
    /\ [][(agent_type \in {"mle", "openai", "dummy"} /\ InHistoryWrite) => RunActive']_vars
    /\ [](agent_type \in {"mle", "openai", "dummy"} =>
             /\ \A f \in Files \ has : file[f] = 0
             /\ wpc = "step" => \A f \in has : file[f] = hist)

\* a call of terminate_process_and_children is over
ReaperEnded == InReaper /\ rpc = "r_return"

\* C22: when a call of terminate_process_and_children that has sent the
\* graceful terminate to the root pid is over, it has not raised and the root
\* is not running: a root that outlived the wait was killed.
C22_RootKilledAfterGrace ==
    (ReaperEnded /\ rpid \in termSent) => (~rraised /\ ~Running(rpid))

\* C23: when timeout_handler is about to raise TimeoutError, every process
\* that a snapshot member spawned after the snapshot was taken, the member
\* having been killed since, has been sent a terminate or a kill or is no
\* longer running.
C23_LateSpawnCaught ==
    AtRaise =>
        \A s \in lateSpawn :
            (s[2] \in killSent /\ status[s[1]] = "run")
                => s[1] \in termSent \cup killSent

\* one step of a terminate or kill loop over list, from position k to k2, under
\* the position at/at2 of its function: the loop goes to the next member, the
\* member it was at has been sent the signal if it was running, and the loop is
\* left only at the end of the list, for the position after
LoopStep(at, at2, here, after, list, k, k2, sent2) ==
    IF k <= Len(list)
    THEN /\ at2 = here
         /\ k2 = k + 1
         /\ Running(list[k]) => list[k] \in sent2
    ELSE at2 = after

NewlyKilled == killSent' \ killSent

IterationStarts == wpc = "loop" /\ i < max_steps

\* C26: in every runner, when an iteration starts with no time left
\* (execution_timeout - elapsed_time <= 0, which includes the first iteration
\* of a run whose time budget is 0), the runner's next step ends the run with
\* time exhausted, and neither agent.act (agent.step) nor env.step is called.
C26_BudgetCheckedFirst ==
    [][(IterationStarts /\ time_exceeded /\ wpc' # wpc) =>
          /\ ~RunActive'
          /\ "TimeExhausted" \in reported'
          /\ hist' = hist
          /\ nstep' = nstep]_vars

\* C27: in run_mle_agent and run_openai_agent, in an iteration that started
\* with time left, no env.step call is started once the elapsed time of the run
\* has reached execution_timeout (agent.act may have used up the rest of the
\* budget).
C27_NoStepAfterBudget ==
    [][(agent_type \in {"mle", "openai"} /\ time_left > 0 /\ nstep' > nstep)
          => ~time_exceeded]_vars

C29_InnerBreakAfterDeadline ==
    /\ [](pc = "thread_start" => (now = 0 /\ wpc = "idle"))
    /\ [][(agent_type = "mle" /\ "TimeExhausted" \in reported' \ reported)
             => now >= execution_timeout]_vars

\* C29's case: with a deadline above 0, run_mle_agent took its time-limit break
\* at the very time the outer deadline elapsed.
C29_Witness ==
    /\ agent_type = "mle"
    /\ execution_timeout > 0
    /\ "TimeExhausted" \in reported
    /\ now = execution_timeout
    /\ pc \in {"thread_join", "is_alive", "finish", "snapshot"}

\* a run of run_mle_agent, run_openai_agent or run_dummy_agent is over and has
\* called env.step
EndedAfterStep ==
    /\ agent_type \in {"mle", "openai", "dummy"}
    /\ RunEnded
    /\ nstep >= 1

\* every history write of the run came before an env.step: the files the agent
\* has were written once per env.step and hold the history written before the
\* last one
PersistedBeforeLastStep ==
    /\ nwrite = nstep * Cardinality(has)
    /\ \A f \in has : file[f] = nstep

\* C30 as stated: when a run that has called env.step is over, agent.act has
\* returned as many times as env.step was called (the last observation was
\* handed to no agent.act), and the files hold the history written before the
\* last env.step.
C30_LastObservationUnused ==
    EndedAfterStep => (hist = nstep /\ PersistedBeforeLastStep)

\* C30 (amended): when a run that has called env.step is over, the files hold
\* the history written before the last env.step and no write followed it;
\* agent.act has returned as many times as env.step was called, or once more,
\* and once more only in run_mle_agent and run_openai_agent when that
\* agent.act, which was handed the last observation, returned stop or error.
C30_LastObservationNotPersisted ==
    EndedAfterStep =>
        /\ PersistedBeforeLastStep
        /\ hist \in {nstep, nstep + 1}
        /\ hist = nstep + 1 =>
              /\ agent_type \in {"mle", "openai"}
              /\ reported \cap {"AgentError", "AgentRequestedStop"} # {}

\* C30's case: run_mle_agent called env.step once, handed its observation to
\* the second agent.act, which returned stop; the files hold the history
\* written before that env.step.
C30_Witness ==
    /\ agent_type = "mle"
    /\ RunEnded
    /\ reported = {"AgentRequestedStop"}
    /\ nstep = 1
    /\ hist = 2
    /\ \A f \in Files : file[f] = 1
====
